---- MODULE Spec2Model ----
(***************************************************************************)
(* Model of src/modules/pocket/list.rs: the `list` subcommand of the       *)
(* Pocket module.  One invocation of `call` is a linear chain              *)
(*     build Request -> info -> serialize -> curl -> from_utf8 -> output   *)
(* and `output` either hands the text to the JSON writer or parses it into *)
(* a ListResult and prints it with msg.                                    *)
(*                                                                         *)
(* Text is modelled as what it is in the program: a sequence of bytes.     *)
(* A Rust Option is a sequence of length 0 (None) or 1 (Some(x)).          *)
(***************************************************************************)
EXTENDS Integers, Sequences, FiniteSets, TLC

VARIABLES
    args,      \* the ArgMatches handed to call
    config,    \* the Config handed to call
    pc,        \* position of the invocation inside call
    request,   \* Option<Request>: the Request built at lines 135-143
    request_json, \* Option<Vec<u8>>: the serialized request of line 154
    wire,      \* the bodies handed to curl, one entry per curl call
    response,  \* Option of what curl returned: status code and buffer
    json,      \* Option<String>: what get returned to call
    parsed,    \* Option<ListResult>: `list` of output_human
    order,     \* the order in which list.list.values() yields the keys
    cursor,    \* how many articles the loop at line 198 has visited
    console,   \* lines written with utils::console (info and msg), in order
    sink,      \* texts handed to utils::output::as_json, in order
    result,    \* how call ended
    prev       \* Option: the previous invocation, when call is run again

vars == <<args, config, pc, request, request_json, wire, response, json, parsed,
          order, cursor, console, sink, result, prev>>

-----------------------------------------------------------------------------
(* Bounds of the model. *)

\* Largest number of articles in a generated response list.
MaxArticles == 2

-----------------------------------------------------------------------------
(* Option and small helpers. *)

None == <<>>
Some(x) == <<x>>
IsSome(o) == Len(o) = 1
IsNone(o) == Len(o) = 0
Unwrap(o) == o[1]

-----------------------------------------------------------------------------
(* String literals of list.rs, as bytes. *)

\* "unread"
S_unread == <<117, 110, 114, 101, 97, 100>>
\* "archive"
S_archive == <<97, 114, 99, 104, 105, 118, 101>>
\* "all"
S_all == <<97, 108, 108>>
\* "newest"
S_newest == <<110, 101, 119, 101, 115, 116>>
\* "oldest"
S_oldest == <<111, 108, 100, 101, 115, 116>>
\* "title"
S_title == <<116, 105, 116, 108, 101>>
\* "site"
S_site == <<115, 105, 116, 101>>
\* "simple"
S_simple == <<115, 105, 109, 112, 108, 101>>
\* "complete"
S_complete == <<99, 111, 109, 112, 108, 101, 116, 101>>
\* "consumer_key"
K_consumer_key == <<99, 111, 110, 115, 117, 109, 101, 114, 95, 107, 101, 121>>
\* "access_token"
K_access_token == <<97, 99, 99, 101, 115, 115, 95, 116, 111, 107, 101, 110>>
\* "state"
K_state == <<115, 116, 97, 116, 101>>
\* "tag"
K_tag == <<116, 97, 103>>
\* "sort"
K_sort == <<115, 111, 114, 116>>
\* "detailType"
K_detailType == <<100, 101, 116, 97, 105, 108, 84, 121, 112, 101>>
\* "search"
K_search == <<115, 101, 97, 114, 99, 104>>
\* "status"
K_status == <<115, 116, 97, 116, 117, 115>>
\* "complete"
K_complete == <<99, 111, 109, 112, 108, 101, 116, 101>>
\* "list"
K_list == <<108, 105, 115, 116>>
\* "item_id"
K_item_id == <<105, 116, 101, 109, 95, 105, 100>>
\* "resolved_title"
K_resolved_title == <<114, 101, 115, 111, 108, 118, 101, 100, 95, 116, 105, 116, 108, 101>>
\* "resolved_url"
K_resolved_url == <<114, 101, 115, 111, 108, 118, 101, 100, 95, 117, 114, 108>>
\* "Getting list of your articles ..."
M_Getting == <<71, 101, 116, 116, 105, 110, 103, 32, 108, 105, 115, 116, 32, 111, 102, 32, 121, 111, 117, 114, 32, 97, 114, 116, 105, 99, 108, 101, 115, 32, 46, 46, 46>>
\* "Received "
M_Received == <<82, 101, 99, 101, 105, 118, 101, 100, 32>>
\* " articles."
M_articles == <<32, 97, 114, 116, 105, 99, 108, 101, 115, 46>>
\* "Receiving articles failed."
M_Failed == <<82, 101, 99, 101, 105, 118, 105, 110, 103, 32, 97, 114, 116, 105, 99, 108, 101, 115, 32, 102, 97, 105, 108, 101, 100, 46>>
\* ": '"
M_sep1 == <<58, 32, 39>>
\* "', "
M_sep2 == <<39, 44, 32>>

-----------------------------------------------------------------------------
(* Option Mapper: the From impls, lines 32-77.  An enum variant is the     *)
(* TLA+ string of its name.                                                *)

\* Lines 32-40 with the arms for "all" and the default exchanged.
StateFrom_defaultAll(s) ==
    IF s = S_archive THEN "archive"
    ELSE IF s = S_unread THEN "unread"
    ELSE "all"

\* impl From<&str> for State, lines 32-40.
StateFrom(s) ==
    IF s = S_archive THEN "archive"
    ELSE IF s = S_all THEN "all"
    ELSE "unread"

\* impl From<&str> for Sort, lines 51-60.
SortFrom(s) ==
    IF s = S_oldest THEN "oldest"
    ELSE IF s = S_title THEN "title"
    ELSE IF s = S_site THEN "site"
    ELSE "newest"

\* impl From<bool> for DetailType, lines 69-77.
DetailTypeFrom(b) == IF b THEN "complete" ELSE "simple"

\* #[derive(Serialize)] on a unit variant writes the variant's name.
VariantName(v) ==
    CASE v = "unread"   -> S_unread
      [] v = "archive"  -> S_archive
      [] v = "all"      -> S_all
      [] v = "newest"   -> S_newest
      [] v = "oldest"   -> S_oldest
      [] v = "title"    -> S_title
      [] v = "site"     -> S_site
      [] v = "simple"   -> S_simple
      [] v = "complete" -> S_complete

-----------------------------------------------------------------------------
(* Request Model: struct Request (lines 79-89) and its derived Serialize,  *)
(* written by serde_json::to_string (line 154).                            *)

HexDigit(n) == IF n < 10 THEN 48 + n ELSE 87 + n

\* serde_json's string escaping of one byte of a str.
EscapeByte(b) ==
    CASE b = 34 -> <<92, 34>>
      [] b = 92 -> <<92, 92>>
      [] b = 8  -> <<92, 98>>
      [] b = 12 -> <<92, 102>>
      [] b = 10 -> <<92, 110>>
      [] b = 13 -> <<92, 114>>
      [] b = 9  -> <<92, 116>>
      [] b < 32 /\ b \notin {8, 9, 10, 12, 13}
                -> <<92, 117, 48, 48, HexDigit(b \div 16), HexDigit(b % 16)>>
      [] OTHER  -> <<b>>

RECURSIVE EscapeStr(_)
EscapeStr(s) == IF s = <<>> THEN <<>> ELSE EscapeByte(Head(s)) \o EscapeStr(Tail(s))

\* A JSON string literal: the quoted, escaped text.
JsonStr(s) == <<34>> \o EscapeStr(s) \o <<34>>

\* One `"key":"value"` member whose value is a string.
Member(k, v) == JsonStr(k) \o <<58>> \o JsonStr(v)

\* An Option field without skip_serializing_if: None is written as null.
OptMember_null(k, o) ==
    IF IsNone(o) THEN <<JsonStr(k) \o <<58, 110, 117, 108, 108>>>> ELSE <<Member(k, Unwrap(o))>>

\* A field marked skip_serializing_if = "Option::is_none" (lines 84-88).
OptMember(k, o) == IF IsNone(o) THEN <<>> ELSE <<Member(k, Unwrap(o))>>

RECURSIVE JoinComma(_)
JoinComma(ms) ==
    IF ms = <<>> THEN <<>>
    ELSE IF Len(ms) = 1 THEN ms[1]
    ELSE ms[1] \o <<44>> \o JoinComma(Tail(ms))

MapOpt(o) == IF IsNone(o) THEN None ELSE Some(VariantName(Unwrap(o)))

\* serde_json::to_string(&request): the fields in declaration order.
SerializeRequest(r) ==
    <<123>>
    \o JoinComma(
           <<Member(K_consumer_key, r.consumer_key)>>
        \o <<Member(K_access_token, r.access_token)>>
        \o OptMember(K_state, MapOpt(r.state))
        \o OptMember(K_tag, r.tag)
        \o OptMember(K_sort, MapOpt(r.sort))
        \o <<Member(K_detailType, VariantName(r.detailType))>>
        \o OptMember(K_search, r.search))
    \o <<125>>

-----------------------------------------------------------------------------
(* str::from_utf8 (line 163): the well-formedness rules of UTF-8.          *)

IsCont(s, i) == i <= Len(s) /\ s[i] \in 128..191
InRange(s, i, lo, hi) == i <= Len(s) /\ s[i] \in lo..hi

\* The first index from i on that holds a byte >= 128, or Len(s) + 1.
AsciiEnd(s, i) ==
    CHOOSE j \in i..(Len(s) + 1) :
        /\ j = Len(s) + 1 \/ s[j] >= 128
        /\ \A k \in i..(j - 1) : s[k] < 128

RECURSIVE Utf8From(_, _)
Utf8From(s, i0) ==
    LET i == AsciiEnd(s, i0) IN
    IF i > Len(s) THEN TRUE
    ELSE LET b == s[i] IN
         CASE b \in 194..223 -> IsCont(s, i + 1) /\ Utf8From(s, i + 2)
           [] b = 224 -> InRange(s, i + 1, 160, 191) /\ IsCont(s, i + 2) /\ Utf8From(s, i + 3)
           [] b \in (225..236) \cup {238, 239}
                      -> IsCont(s, i + 1) /\ IsCont(s, i + 2) /\ Utf8From(s, i + 3)
           [] b = 237 -> InRange(s, i + 1, 128, 159) /\ IsCont(s, i + 2) /\ Utf8From(s, i + 3)
           [] b = 240 -> InRange(s, i + 1, 144, 191) /\ IsCont(s, i + 2) /\ IsCont(s, i + 3)
                         /\ Utf8From(s, i + 4)
           [] b \in 241..243 -> IsCont(s, i + 1) /\ IsCont(s, i + 2) /\ IsCont(s, i + 3)
                                /\ Utf8From(s, i + 4)
           [] b = 244 -> InRange(s, i + 1, 128, 143) /\ IsCont(s, i + 2) /\ IsCont(s, i + 3)
                         /\ Utf8From(s, i + 4)
           [] OTHER -> FALSE

IsUtf8(s) == Utf8From(s, 1)

-----------------------------------------------------------------------------
(* serde_json::from_str (line 191), first half: the JSON grammar.  A parsed *)
(* value is a node [t, v]: t is "null", "bool", "num", "str", "arr" or      *)
(* "obj"; an object keeps its members in order, duplicates included, as the *)
(* deserializer sees them.  A parse returns [ok, val, pos], pos being the   *)
(* index after the value.                                                   *)

\* "true"
S_true == <<116, 114, 117, 101>>
\* "false"
S_false == <<102, 97, 108, 115, 101>>
\* "null"
S_null == <<110, 117, 108, 108>>
\* "2147483647" and "2147483648": the decimal digits of i32::MAX and of -i32::MIN
I32MaxDigits == <<50, 49, 52, 55, 52, 56, 51, 54, 52, 55>>
I32MinDigits == <<50, 49, 52, 55, 52, 56, 51, 54, 52, 56>>

NullNode == [t |-> "null", v |-> 0]
Fail == [ok |-> FALSE, val |-> NullNode, pos |-> 0]
Parsed(val, pos) == [ok |-> TRUE, val |-> val, pos |-> pos]

\* The byte at i, or -1 at the end of the input.
At(s, i) == IF i \in 1..Len(s) THEN s[i] ELSE -1

StartsWith(s, i, lit) ==
    i + Len(lit) - 1 <= Len(s) /\ SubSeq(s, i, i + Len(lit) - 1) = lit

\* The first index from i on that holds no whitespace (Len(s) + 1 at the end).
SkipWs(s, i) ==
    CHOOSE j \in i..(Len(s) + 1) :
        /\ At(s, j) \notin {32, 9, 10, 13}
        /\ \A k \in i..(j - 1) : s[k] \in {32, 9, 10, 13}

HexVal(b) ==
    IF b \in 48..57 THEN b - 48
    ELSE IF b \in 97..102 THEN b - 87
    ELSE IF b \in 65..70 THEN b - 55
    ELSE -1

\* The value of the four hex digits at i, or -1.
Hex4(s, i) ==
    IF \A j \in i..(i + 3) : HexVal(At(s, j)) >= 0
    THEN 4096 * HexVal(s[i]) + 256 * HexVal(s[i + 1]) + 16 * HexVal(s[i + 2]) + HexVal(s[i + 3])
    ELSE -1

EncodeUtf8(c) ==
    IF c < 128 THEN <<c>>
    ELSE IF c < 2048 THEN <<192 + (c \div 64), 128 + (c % 64)>>
    ELSE IF c < 65536
         THEN <<224 + (c \div 4096), 128 + ((c \div 64) % 64), 128 + (c % 64)>>
    ELSE <<240 + (c \div 262144), 128 + ((c \div 4096) % 64),
           128 + ((c \div 64) % 64), 128 + (c % 64)>>

\* The byte a one-letter escape stands for, or -1.
SimpleEscape(b) ==
    CASE b = 34  -> 34
      [] b = 92  -> 92
      [] b = 47  -> 47
      [] b = 98  -> 8
      [] b = 102 -> 12
      [] b = 110 -> 10
      [] b = 114 -> 13
      [] b = 116 -> 9
      [] OTHER   -> -1

\* The first index from i on that holds a quote, a backslash or a control
\* byte, or Len(s) + 1: the bytes before it are copied as they are.
StrStop(s, i) ==
    CHOOSE j \in i..(Len(s) + 1) :
        /\ j = Len(s) + 1 \/ s[j] \in {34, 92} \/ s[j] < 32
        /\ \A k \in i..(j - 1) : s[k] \notin {34, 92} /\ s[k] >= 32

\* The rest of a string literal from i (after the opening quote).
RECURSIVE ParseStrTail(_, _, _)
ParseStrTail(s, i, acc) ==
    LET j    == StrStop(s, i)
        b    == At(s, j)
        acc1 == acc \o SubSeq(s, i, j - 1)
    IN
    IF b = 34 THEN Parsed([t |-> "str", v |-> acc1], j + 1)
    ELSE IF b = 92 THEN
        LET e == At(s, j + 1) IN
        IF e = 117 THEN
            LET n1 == Hex4(s, j + 2) IN
            IF n1 < 0 \/ n1 \in 56320..57343 THEN Fail
            ELSE IF n1 \in 55296..56319 THEN
                LET n2 == IF At(s, j + 6) = 92 /\ At(s, j + 7) = 117 THEN Hex4(s, j + 8) ELSE -1 IN
                IF n2 \in 56320..57343
                THEN ParseStrTail(s, j + 12,
                         acc1 \o EncodeUtf8(65536 + (n1 - 55296) * 1024 + (n2 - 56320)))
                ELSE Fail
            ELSE ParseStrTail(s, j + 6, acc1 \o EncodeUtf8(n1))
        ELSE IF SimpleEscape(e) >= 0 THEN ParseStrTail(s, j + 2, Append(acc1, SimpleEscape(e)))
        ELSE Fail
    ELSE Fail

\* The first index from i on that holds no digit.
DigitsEnd(s, i) ==
    CHOOSE j \in i..(Len(s) + 1) :
        /\ At(s, j) \notin 48..57
        /\ \A k \in i..(j - 1) : s[k] \in 48..57

\* a <= b for two digit strings of the same length.
RECURSIVE LeqDigits(_, _)
LeqDigits(a, b) ==
    IF a = <<>> THEN TRUE
    ELSE IF Head(a) # Head(b) THEN Head(a) < Head(b)
    ELSE LeqDigits(Tail(a), Tail(b))

\* Minus the value of a digit string that fits an i32.
RECURSIVE NegVal(_, _)
NegVal(ds, acc) == IF ds = <<>> THEN acc ELSE NegVal(Tail(ds), 10 * acc - (Head(ds) - 48))

FitsI32(ds, neg) ==
    \/ Len(ds) < 10
    \/ Len(ds) = 10 /\ LeqDigits(ds, IF neg THEN I32MinDigits ELSE I32MaxDigits)

\* A number from i: s[i] is '-' or a digit.
ParseNumber(s, i) ==
    LET neg  == At(s, i) = 45
        d0   == IF neg THEN i + 1 ELSE i
        d1   == DigitsEnd(s, d0)
        frac == At(s, d1) = 46
        f1   == IF frac THEN DigitsEnd(s, d1 + 1) ELSE d1
        exp  == At(s, f1) \in {101, 69}
        e0   == IF exp /\ At(s, f1 + 1) \in {43, 45} THEN f1 + 2 ELSE f1 + 1
        e1   == IF exp THEN DigitsEnd(s, e0) ELSE f1
        ds   == SubSeq(s, d0, d1 - 1)
    IN  IF d1 = d0 THEN Fail
        ELSE IF s[d0] = 48 /\ d1 > d0 + 1 THEN Fail
        ELSE IF frac /\ f1 = d1 + 1 THEN Fail
        ELSE IF exp /\ e1 = e0 THEN Fail
        ELSE IF frac \/ exp THEN Parsed([t |-> "num", v |-> [kind |-> "float", n |-> 0]], e1)
        ELSE IF FitsI32(ds, neg)
             THEN Parsed([t |-> "num",
                          v |-> [kind |-> "i32",
                                 n |-> IF neg THEN NegVal(ds, 0) ELSE 0 - NegVal(ds, 0)]], e1)
        ELSE Parsed([t |-> "num", v |-> [kind |-> "wide", n |-> 0]], e1)

RECURSIVE ParseValue(_, _)
RECURSIVE ParseMembers(_, _, _)
RECURSIVE ParseElements(_, _, _)

\* The members of an object from i (after '{' or ','), which must start a key.
ParseMembers(s, i, acc) ==
    LET k0 == SkipWs(s, i) IN
    IF At(s, k0) # 34 THEN Fail
    ELSE LET k == ParseStrTail(s, k0 + 1, <<>>) IN
         IF ~k.ok THEN Fail
         ELSE LET c == SkipWs(s, k.pos) IN
              IF At(s, c) # 58 THEN Fail
              ELSE LET v == ParseValue(s, c + 1) IN
                   IF ~v.ok THEN Fail
                   ELSE LET e    == SkipWs(s, v.pos)
                            acc2 == Append(acc, <<k.val.v, v.val>>)
                        IN  IF At(s, e) = 44 THEN ParseMembers(s, e + 1, acc2)
                            ELSE IF At(s, e) = 125 THEN Parsed([t |-> "obj", v |-> acc2], e + 1)
                            ELSE Fail

\* The elements of an array from i (after '[' or ',').
ParseElements(s, i, acc) ==
    LET v == ParseValue(s, i) IN
    IF ~v.ok THEN Fail
    ELSE LET e    == SkipWs(s, v.pos)
             acc2 == Append(acc, v.val)
         IN  IF At(s, e) = 44 THEN ParseElements(s, e + 1, acc2)
             ELSE IF At(s, e) = 93 THEN Parsed([t |-> "arr", v |-> acc2], e + 1)
             ELSE Fail

ParseValue(s, i) ==
    LET j == SkipWs(s, i)
        b == At(s, j)
    IN  CASE b = 123 ->
                 IF At(s, SkipWs(s, j + 1)) = 125
                 THEN Parsed([t |-> "obj", v |-> <<>>], SkipWs(s, j + 1) + 1)
                 ELSE ParseMembers(s, j + 1, <<>>)
          [] b = 91 ->
                 IF At(s, SkipWs(s, j + 1)) = 93
                 THEN Parsed([t |-> "arr", v |-> <<>>], SkipWs(s, j + 1) + 1)
                 ELSE ParseElements(s, j + 1, <<>>)
          [] b = 34 -> ParseStrTail(s, j + 1, <<>>)
          [] b = 45 \/ b \in 48..57 -> ParseNumber(s, j)
          [] b = 116 ->
                 IF StartsWith(s, j, S_true)
                 THEN Parsed([t |-> "bool", v |-> TRUE], j + 4) ELSE Fail
          [] b = 102 ->
                 IF StartsWith(s, j, S_false)
                 THEN Parsed([t |-> "bool", v |-> FALSE], j + 5) ELSE Fail
          [] b = 110 ->
                 IF StartsWith(s, j, S_null) THEN Parsed(NullNode, j + 4) ELSE Fail
          [] OTHER -> Fail

\* A whole document: one value, then nothing but whitespace.
ParseJson(s) ==
    LET v == ParseValue(s, 1) IN
    IF v.ok /\ SkipWs(s, v.pos) = Len(s) + 1 THEN v ELSE Fail

-----------------------------------------------------------------------------
(* serde_json::from_str (line 191), second half: the derived Deserialize   *)
(* of ListResult and Article (lines 176-188).  A typed result is [ok, val]. *)

TOk(v) == [ok |-> TRUE, val |-> v]
TErr == [ok |-> FALSE, val |-> 0]

\* visit_map of a derived struct: each known key fills its slot once, a key
\* that is no field of the struct is skipped, a repeated field is an error.
RECURSIVE VisitMap(_, _, _)
VisitMap(members, keys, acc) ==
    IF members = <<>> THEN TOk(acc)
    ELSE LET k   == Head(members)[1]
             idx == {j \in 1..Len(keys) : keys[j] = k}
         IN  IF idx = {} THEN VisitMap(Tail(members), keys, acc)
             ELSE LET j == CHOOSE j \in idx : TRUE IN
                  IF IsSome(acc[j]) THEN TErr
                  ELSE VisitMap(Tail(members), keys,
                                [acc EXCEPT ![j] = Some(Head(members)[2])])

\* The same struct with #[serde(deny_unknown_fields)].
RECURSIVE VisitMapDeny(_, _, _)
VisitMapDeny(members, keys, acc) ==
    IF members = <<>> THEN TOk(acc)
    ELSE LET k   == Head(members)[1]
             idx == {j \in 1..Len(keys) : keys[j] = k}
         IN  IF idx = {} THEN TErr
             ELSE LET j == CHOOSE j \in idx : TRUE IN
                  IF IsSome(acc[j]) THEN TErr
                  ELSE VisitMapDeny(Tail(members), keys,
                                    [acc EXCEPT ![j] = Some(Head(members)[2])])

\* StructSlots for a struct with #[serde(deny_unknown_fields)].
StructSlots_deny(n, keys) ==
    IF n.t = "obj" THEN VisitMapDeny(n.v, keys, [j \in 1..Len(keys) |-> None])
    ELSE IF n.t = "arr" /\ Len(n.v) = Len(keys) THEN TOk([j \in 1..Len(keys) |-> Some(n.v[j])])
    ELSE TErr

\* The slots of a struct with the given field names: from an object
\* (visit_map) or from an array of exactly that many elements (visit_seq).
StructSlots(n, keys) ==
    IF n.t = "obj" THEN VisitMap(n.v, keys, [j \in 1..Len(keys) |-> None])
    ELSE IF n.t = "arr" /\ Len(n.v) = Len(keys) THEN TOk([j \in 1..Len(keys) |-> Some(n.v[j])])
    ELSE TErr

\* A field that is absent is an error for every field type used here.
AllPresent(slots) == \A j \in DOMAIN slots : IsSome(slots[j])

IsI32(n) == n.t = "num" /\ n.v.kind = "i32"
IsString(n) == n.t = "str"

ArticleKeys == <<K_item_id, K_resolved_title, K_resolved_url>>
ListResultKeys == <<K_status, K_complete, K_list>>

\* struct Article, lines 183-188.
DeArticle(n) ==
    LET r == StructSlots(n, ArticleKeys) IN
    IF r.ok /\ AllPresent(r.val) /\ \A j \in 1..3 : IsString(r.val[j][1])
    THEN TOk([item_id        |-> r.val[1][1].v,
              resolved_title |-> r.val[2][1].v,
              resolved_url   |-> r.val[3][1].v])
    ELSE TErr

\* HashMap::insert: a later entry with the same key replaces the earlier one.
Insert(m, k, a) == [x \in DOMAIN m \cup {k} |-> IF x = k THEN a ELSE m[x]]

EmptyMap == [x \in {} |-> 0]

\* HashMap<String, Article>, line 180: the members of an object, in order.
RECURSIVE DeEntries(_, _)
DeEntries(members, acc) ==
    IF members = <<>> THEN TOk(acc)
    ELSE LET a == DeArticle(Head(members)[2]) IN
         IF ~a.ok THEN TErr
         ELSE DeEntries(Tail(members), Insert(acc, Head(members)[1], a.val))

DeList(n) == IF n.t = "obj" THEN DeEntries(n.v, EmptyMap) ELSE TErr

\* struct ListResult, lines 176-181.
DeListResult(n) ==
    LET r == StructSlots(n, ListResultKeys) IN
    IF r.ok /\ AllPresent(r.val) /\ IsI32(r.val[1][1]) /\ IsI32(r.val[2][1])
    THEN LET l == DeList(r.val[3][1]) IN
         IF l.ok THEN TOk([status   |-> r.val[1][1].v.n,
                           complete |-> r.val[2][1].v.n,
                           list     |-> l.val])
         ELSE TErr
    ELSE TErr

\* serde_json::from_str::<ListResult>(&json), line 191.
FromStr(s) ==
    LET p == ParseJson(s) IN
    IF p.ok THEN DeListResult(p.val) ELSE TErr

-----------------------------------------------------------------------------
(* Formatting, lines 194-199. *)

\* The decimal digits of a natural number, as format!("{}", n) writes them.
RECURSIVE Dec(_)
Dec(n) == IF n < 10 THEN <<48 + n>> ELSE Dec(n \div 10) \o <<48 + (n % 10)>>

\* format!("Received {} articles.", n), line 194.
ReceivedLine(n) == M_Received \o Dec(n) \o M_articles

\* format!("{}: '{}', {}", a.item_id, a.resolved_title, a.resolved_url), line 199.
ArticleLine(a) == a.item_id \o M_sep1 \o a.resolved_title \o M_sep2 \o a.resolved_url

-----------------------------------------------------------------------------
(* The inputs of an invocation: the ArgMatches and Config handed to call   *)
(* (line 118) and what curl returns (lines 156-162).                       *)

\* Values of "state": the three of possible_values (line 107), and strings
\* the match at lines 34-38 does not name ("newest", "Archive", the empty one).
StateInputs == {S_unread, S_archive, S_all, S_newest, <<65, 114, 99, 104, 105, 118, 101>>, <<>>}

\* Values of "sort": the four of possible_values (line 113), and strings the
\* match at lines 53-58 does not name.
SortInputs == {S_newest, S_oldest, S_title, S_site, S_all}

\* Values of "tag" and "search": absent, empty, and a text with a quote in it.
TextInputs == {None, Some(<<>>), Some(<<116, 34, 103>>)}

\* build_sub_cli gives "state" and "sort" a default_value (lines 108, 114),
\* so value_of finds a value for both; call reads "tag", "details", "search".
\* Every state with every sort, and every choice of tag, details and search.
ArgMatches ==
    [state : StateInputs, tag : {None}, sort : SortInputs,
     details : {FALSE}, search : {None}]
    \cup [state : {S_unread}, tag : TextInputs, sort : {S_newest},
          details : BOOLEAN, search : {None, Some(<<114, 117, 115, 116>>)}]

\* config.pocket.consumer_key, config.pocket.access_token and
\* config.general.output_format (lines 136, 137, 148).
Configs ==
    [consumer_key : {<<99, 107>>}, access_token : {None, Some(<<116, 111, 107>>)},
     output_format : {"HUMAN", "JSON"}]

\* Articles of a generated list: ids "1", "2", ...; the second title holds a
\* quote and a two-byte character (T"e-acute).
ArtId(i) == Dec(i)
ArtTitle(i) == IF i = 2 THEN <<84, 34, 195, 169>> ELSE <<84>> \o Dec(i)
ArtUrl(i) == <<104, 116, 116, 112, 58, 47, 47, 117, 47>> \o Dec(i)

RawMember(k, raw) == JsonStr(k) \o <<58>> \o raw
Obj(ms) == <<123>> \o JoinComma(ms) \o <<125>>

ArticleMembers(i) ==
    <<RawMember(K_item_id, JsonStr(ArtId(i))),
      RawMember(K_resolved_title, JsonStr(ArtTitle(i))),
      RawMember(K_resolved_url, JsonStr(ArtUrl(i)))>>

ListMembers(n) == [i \in 1..n |-> RawMember(ArtId(i), Obj(ArticleMembers(i)))]

TopMembers(statusRaw, listRaw) ==
    <<RawMember(K_status, statusRaw), RawMember(K_complete, <<49>>),
      RawMember(K_list, listRaw)>>

\* A response as the remote documents it: status, complete, n articles.
Body(statusRaw, n) == Obj(TopMembers(statusRaw, Obj(ListMembers(n))))

\* The sequence ms without its j-th element, and with it replaced.
Drop(ms, j) == SubSeq(ms, 1, j - 1) \o SubSeq(ms, j + 1, Len(ms))
Put(ms, j, m) == SubSeq(ms, 1, j - 1) \o <<m>> \o SubSeq(ms, j + 1, Len(ms))

\* A response whose only article is the given raw value.
OneArticle(statusRaw, raw) == Obj(TopMembers(statusRaw, Obj(<<RawMember(ArtId(1), raw)>>)))

StatusRaws == {<<48>>, <<49>>, <<50>>}

WellFormedBodies ==
    {Body(s, n) : s \in StatusRaws, n \in 0..MaxArticles}
    \cup {Body(<<50, 49, 52, 55, 52, 56, 51, 54, 52, 55>>, 1), Body(<<45, 50, 49, 52, 55, 52, 56, 51, 54, 52, 56>>, 1), Body(<<45, 49>>, 0)}
    \* the same entry twice in the list, the second one with another title
    \cup {Obj(TopMembers(s, Obj(<<RawMember(ArtId(1), Obj(ArticleMembers(1))),
                                  RawMember(ArtId(1), Obj(Put(ArticleMembers(1), 2,
                                      RawMember(K_resolved_title, JsonStr(<<90>>)))))>>)))
          : s \in {<<48>>, <<49>>}}
    \* whitespace between the tokens
    \cup {<<32, 10, 123, 32>>
          \o JoinComma(TopMembers(<<32, 49, 9>>, <<32, 123, 13, 125>>)) \o <<32, 125, 10>>}
    \* the structs written as arrays
    \cup {<<91, 49, 44, 49, 44>> \o Obj(ListMembers(1)) \o <<93>>,
          OneArticle(<<49>>, <<91>> \o JoinComma(<<JsonStr(ArtId(1)), JsonStr(ArtTitle(1)),
                                                   JsonStr(ArtUrl(1))>>) \o <<93>>)}
    \* a title written with \u escapes (e-acute, and a surrogate pair)
    \cup {OneArticle(<<49>>, Obj(Put(ArticleMembers(1), 2,
              RawMember(K_resolved_title, <<34, 84, 92, 117, 48, 48, 101, 57, 92, 117, 100, 56, 51, 100, 92, 117, 100, 101, 48, 48, 34>>))))}

\* Responses with fields the structs do not name.
ExtraFieldBodies ==
    {Obj(<<RawMember(<<115, 105, 110, 99, 101>>, <<49, 53>>)>> \o TopMembers(s, Obj(ListMembers(n)))
         \o <<RawMember(<<101, 114, 114, 111, 114>>, S_null)>>) : s \in {<<48>>, <<49>>}, n \in {0, MaxArticles}}
    \cup {OneArticle(s, Obj(<<RawMember(<<103, 105, 118, 101, 110, 95, 117, 114, 108>>, JsonStr(ArtUrl(1)))>>
              \o ArticleMembers(1)
              \o <<RawMember(<<116, 97, 103, 115>>, <<123, 125>>), RawMember(<<102, 97, 118, 111, 114, 105, 116, 101>>, <<91, 48, 93>>)>>))
          : s \in {<<48>>, <<49>>}}

\* Responses that lack a field, hold a value of another type, or repeat a field.
IllTypedBodies ==
    {Obj(Drop(TopMembers(<<49>>, Obj(ListMembers(1))), j)) : j \in 1..3}
    \cup {OneArticle(<<49>>, Obj(Drop(ArticleMembers(1), j))) : j \in 1..3}
    \cup {Body(raw, 1) : raw \in {JsonStr(<<49>>), <<49, 46, 48>>, <<49, 101, 48>>,
                                   <<50, 49, 52, 55, 52, 56, 51, 54, 52, 56>>, S_true, S_null}}
    \cup {Obj(Put(TopMembers(<<49>>, Obj(ListMembers(1))), 2, RawMember(K_complete, raw)))
          : raw \in {S_true, JsonStr(<<49>>)}}
    \cup {Obj(TopMembers(s, raw)) : s \in {<<48>>, <<49>>}, raw \in {<<91, 93>>, S_null}}
    \cup {OneArticle(<<49>>, Obj(Put(ArticleMembers(1), j, RawMember(ArticleKeys[j], raw))))
          : j \in 1..3, raw \in {<<49>>, S_null}}
    \cup {OneArticle(<<49>>, raw) : raw \in {S_null, JsonStr(<<49>>), <<91, 93>>}}
    \cup {Obj(TopMembers(<<49>>, Obj(ListMembers(1))) \o <<RawMember(K_status, <<49>>)>>),
          <<91, 49, 44, 49, 93>>, S_null, <<49>>}

\* Texts that are no JSON document.
MalformedBodies ==
    {<<>>, <<60, 104, 116, 109, 108, 62>>, SubSeq(Body(<<49>>, 1), 1, Len(Body(<<49>>, 1)) - 1),
     Body(<<49>>, 1) \o <<125>>, Body(<<48, 49>>, 1), Body(<<49, 46>>, 0),
     Obj(TopMembers(<<49>>, Obj(ListMembers(1))) \o <<<<>>>>),
     OneArticle(<<49>>, Obj(Put(ArticleMembers(1), 2,
         RawMember(K_resolved_title, <<34, 84, 92, 117, 100, 56, 51, 100, 34>>)))),
     OneArticle(<<49>>, Obj(Put(ArticleMembers(1), 2,
         RawMember(K_resolved_title, <<34, 84, 10, 34>>))))}

\* Byte sequences that are no UTF-8 text.
NonUtf8Bodies ==
    {<<255>>, Body(<<49>>, 1) \o <<195>>, <<237, 160, 128>>, <<192, 175>>,
     OneArticle(<<49>>, Obj(Put(ArticleMembers(1), 2,
         RawMember(K_resolved_title, <<34, 84, 233, 34>>))))}

Utf8Bodies == WellFormedBodies \cup ExtraFieldBodies \cup IllTypedBodies \cup MalformedBodies

Bodies == Utf8Bodies \cup NonUtf8Bodies

\* The status codes curl may report.
StatusCodes == {200, 500}

-----------------------------------------------------------------------------
(* Results and error chains.  error_chain's chain_err puts a new error on  *)
(* top of the one it wraps: a chain lists the errors, outermost first.     *)

Running == [kind |-> "running", chain |-> <<>>]
Ok == [kind |-> "Ok", chain |-> <<>>]
Err(chain) == [kind |-> "Err", chain |-> chain]
\* Option::unwrap on None.
Panic == [kind |-> "panic", chain |-> <<>>]

ChainErr(top, chain) == <<top>> \o chain

\* An error of get as call returns it: .chain_err(|| PocketListFailed), line 146.
CallGetErr(chain) == ChainErr("PocketListFailed", chain)

\* An error of the chosen renderer as output returns it, lines 169-173.
OutputErr(format, chain) ==
    IF format = "JSON" THEN ChainErr("PocketListFailed", chain) ELSE chain

Info(text) == [fn |-> "info", text |-> text]
Msg(text) == [fn |-> "msg", text |-> text]

-----------------------------------------------------------------------------
(* call, lines 118-149. *)

\* Line 137 with unwrap_or_default: a missing token becomes the empty one.
AccessToken_orEmpty(c) == IF IsNone(c.access_token) THEN Some(<<>>) ELSE c.access_token

\* config.pocket.access_token.as_ref().unwrap(), line 137: None panics.
AccessToken(c) == c.access_token

\* Lines 121-143, given the token.
MakeRequest(a, c, token) ==
    [consumer_key |-> c.consumer_key,
     access_token |-> token,
     state        |-> Some(StateFrom(a.state)),
     tag          |-> IF IsSome(a.tag) THEN Some(Unwrap(a.tag)) ELSE None,
     sort         |-> Some(SortFrom(a.sort)),
     detailType   |-> DetailTypeFrom(a.details),
     search       |-> IF IsSome(a.search) THEN Some(Unwrap(a.search)) ELSE None]

\* Lines 119-143.
BuildRequest ==
    /\ pc = "call"
    /\ LET token == AccessToken(config) IN
       IF IsNone(token)
       THEN /\ result' = Panic
            /\ pc' = "done"
            /\ UNCHANGED request
       ELSE /\ request' = Some(MakeRequest(args, config, Unwrap(token)))
            /\ pc' = "info"
            /\ UNCHANGED result
    /\ UNCHANGED <<args, config, request_json, wire, response, json, parsed, order,
                   cursor, console, sink, prev>>

\* Line 145.
LogGetting ==
    /\ pc = "info"
    /\ console' = Append(console, Info(M_Getting))
    /\ pc' = "get"
    /\ UNCHANGED <<args, config, request, request_json, wire, response, json, parsed,
                   order, cursor, sink, result, prev>>

-----------------------------------------------------------------------------
(* get, lines 152-166. *)

\* Line 154.  Serializing a Request cannot fail: it holds strings and unit
\* variants only.
Serialize ==
    /\ pc = "get"
    /\ request_json' = Some(SerializeRequest(Unwrap(request)))
    /\ pc' = "curl"
    /\ UNCHANGED <<args, config, request, wire, response, json, parsed, order, cursor,
                   console, sink, result, prev>>

\* What curl may answer: an error, or a status code and the bytes of the
\* body.  When call is run again the remote answers with the same bytes and
\* another status code.
CurlOutcomes ==
    IF IsSome(prev)
    THEN {[ok |-> TRUE, code |-> c, buffer |-> Unwrap(prev).buffer]
             : c \in StatusCodes \ {Unwrap(prev).code}}
    ELSE {[ok |-> FALSE, code |-> 0, buffer |-> <<>>]}
         \cup {[ok |-> TRUE, code |-> c, buffer |-> b] : c \in StatusCodes, b \in Bodies}

\* Lines 156-162, with a failure tried once more.
Curl_retry ==
    /\ pc = "curl"
    /\ wire' = Append(wire, Unwrap(request_json))
    /\ \E o \in CurlOutcomes :
          IF o.ok
          THEN /\ response' = Some([code |-> o.code, buffer |-> o.buffer])
               /\ pc' = "from_utf8"
               /\ UNCHANGED result
          ELSE IF Len(wire) = 0
          THEN /\ pc' = "curl"
               /\ UNCHANGED <<response, result>>
          ELSE /\ result' = Err(CallGetErr(ChainErr("Curl failed", <<"curl::Error">>)))
               /\ pc' = "done"
               /\ UNCHANGED response
    /\ UNCHANGED <<args, config, request, request_json, json, parsed, order, cursor,
                   console, sink, prev>>

\* Lines 156-162.
Curl ==
    /\ pc = "curl"
    /\ wire' = Append(wire, Unwrap(request_json))
    /\ \E o \in CurlOutcomes :
          IF o.ok
          THEN /\ response' = Some([code |-> o.code, buffer |-> o.buffer])
               /\ pc' = "from_utf8"
               /\ UNCHANGED result
          ELSE /\ result' = Err(CallGetErr(ChainErr("Curl failed", <<"curl::Error">>)))
               /\ pc' = "done"
               /\ UNCHANGED response
    /\ UNCHANGED <<args, config, request, request_json, json, parsed, order, cursor,
                   console, sink, prev>>

\* Lines 163-165 with the TODO of line 155 carried out: only continue if 200.
GetResult_only200(resp) ==
    IF resp.code # 200 THEN TErr
    ELSE IF IsUtf8(resp.buffer) THEN TOk(resp.buffer) ELSE TErr

\* Lines 163-165 with str::from_utf8_unchecked: the buffer is not validated.
GetResult_unchecked(resp) == TOk(resp.buffer)

\* Lines 163-165: the buffer as a String, whatever the status code.
GetResult(resp) == IF IsUtf8(resp.buffer) THEN TOk(resp.buffer) ELSE TErr

FromUtf8 ==
    /\ pc = "from_utf8"
    /\ LET r == GetResult(Unwrap(response)) IN
       IF r.ok
       THEN /\ json' = Some(r.val)
            /\ pc' = "output"
            /\ UNCHANGED result
       ELSE /\ result' = Err(CallGetErr(ChainErr("Data copying failed.", <<"Utf8Error">>)))
            /\ pc' = "done"
            /\ UNCHANGED json
    /\ UNCHANGED <<args, config, request, request_json, wire, response, parsed, order,
                   cursor, console, sink, prev>>

-----------------------------------------------------------------------------
(* output and output_human, lines 168-203. *)

\* What utils::output::as_json may answer.  When call is run again the
\* writer behaves as it did before.
AsJsonOutcomes ==
    IF IsSome(prev) THEN {Unwrap(prev).result.kind = "Ok"} ELSE BOOLEAN

\* Lines 171-172: the text goes to as_json as it is.
OutputJson ==
    /\ pc = "output"
    /\ config.output_format = "JSON"
    /\ sink' = Append(sink, Unwrap(json))
    /\ \E ok \in AsJsonOutcomes :
          result' = IF ok THEN Ok ELSE Err(OutputErr("JSON", <<"output::Error">>))
    /\ pc' = "done"
    /\ UNCHANGED <<args, config, request, request_json, wire, response, json, parsed,
                   order, cursor, console, prev>>

\* The sequences that hold every element of S once.
Perms(S) ==
    {p \in [1..Cardinality(S) -> S] : \A i, j \in 1..Cardinality(S) : p[i] = p[j] => i = j}

\* The orders in which a HashMap with these keys may yield its values: any,
\* since the hasher is seeded at random.  When call is run again the map
\* yields them as it did before.
IterationOrders(keys) ==
    IF IsSome(prev) /\ IsSome(Unwrap(prev).order)
    THEN {Unwrap(Unwrap(prev).order)}
    ELSE Perms(keys)

\* Lines 170 and 191: the HUMAN arm, and the parse that opens output_human.
OutputHuman ==
    /\ pc = "output"
    /\ config.output_format = "HUMAN"
    /\ LET r == FromStr(Unwrap(json)) IN
       IF r.ok
       THEN /\ parsed' = Some(r.val)
            /\ \E o \in IterationOrders(DOMAIN r.val.list) : order' = Some(o)
            /\ pc' = "status"
            /\ UNCHANGED result
       ELSE /\ result' = Err(OutputErr("HUMAN",
                                ChainErr("JSON parsing failed", <<"serde_json::Error">>)))
            /\ pc' = "done"
            /\ UNCHANGED <<parsed, order>>
    /\ UNCHANGED <<args, config, request, request_json, wire, response, json, cursor,
                   console, sink, prev>>

\* Lines 193-197 with the count taken from the `complete` field.
StatusLine_complete(list) ==
    IF list.status = 1 THEN ReceivedLine(list.complete) ELSE M_Failed

\* Lines 193-197.
StatusLine(list) ==
    IF list.status = 1 THEN ReceivedLine(Cardinality(DOMAIN list.list)) ELSE M_Failed

ReportStatus ==
    /\ pc = "status"
    /\ console' = Append(console, Msg(StatusLine(Unwrap(parsed))))
    /\ pc' = "loop"
    /\ UNCHANGED <<args, config, request, request_json, wire, response, json, parsed,
                   order, cursor, sink, result, prev>>

\* Lines 198-200: one turn of the loop.
PrintArticle ==
    /\ pc = "loop"
    /\ cursor < Len(Unwrap(order))
    /\ console' = Append(console,
                         Msg(ArticleLine(Unwrap(parsed).list[Unwrap(order)[cursor + 1]])))
    /\ cursor' = cursor + 1
    /\ UNCHANGED <<args, config, pc, request, request_json, wire, response, json, parsed,
                   order, sink, result, prev>>

\* Line 202, once the loop is over.
Return ==
    /\ pc = "loop"
    /\ cursor = Len(Unwrap(order))
    /\ result' = Ok
    /\ pc' = "done"
    /\ UNCHANGED <<args, config, request, request_json, wire, response, json, parsed,
                   order, cursor, console, sink, prev>>

-----------------------------------------------------------------------------
(* The specifications. *)

Fresh ==
    /\ pc = "call"
    /\ request = None
    /\ request_json = None
    /\ wire = <<>>
    /\ response = None
    /\ json = None
    /\ parsed = None
    /\ order = None
    /\ cursor = 0
    /\ console = <<>>
    /\ sink = <<>>
    /\ result = Running

Init ==
    /\ args \in ArgMatches
    /\ config \in Configs
    /\ prev = None
    /\ Fresh

Next ==
    \/ BuildRequest
    \/ LogGetting
    \/ Serialize
    \/ Curl
    \/ FromUtf8
    \/ OutputJson
    \/ OutputHuman
    \/ ReportStatus
    \/ PrintArticle
    \/ Return

\* One invocation of call.
Spec == Init /\ [][Next]_vars

\* The command is run a second time with the same arguments and
\* configuration, the remote answering with the same body.
Reinvoke ==
    /\ pc = "done"
    /\ IsNone(prev)
    /\ IsSome(response)
    /\ prev' = Some([code    |-> Unwrap(response).code,
                     buffer  |-> Unwrap(response).buffer,
                     order   |-> order,
                     console |-> console,
                     sink    |-> sink,
                     result  |-> result])
    /\ pc' = "call"
    /\ request' = None
    /\ request_json' = None
    /\ wire' = <<>>
    /\ response' = None
    /\ json' = None
    /\ parsed' = None
    /\ order' = None
    /\ cursor' = 0
    /\ console' = <<>>
    /\ sink' = <<>>
    /\ result' = Running
    /\ UNCHANGED <<args, config>>

InitPair ==
    /\ args \in {a \in ArgMatches : a.state = S_unread /\ a.sort = S_newest
                                    /\ a.tag = None /\ a.search = None}
    /\ config \in {c \in Configs : IsSome(c.access_token)}
    /\ prev = None
    /\ Fresh

NextPair == Next \/ Reinvoke

\* Two invocations of call that differ in the status code only.
SpecPair == InitPair /\ [][NextPair]_vars

-----------------------------------------------------------------------------
(* Properties. *)

\* The texts written with msg, in order.
RECURSIVE MsgLines(_)
MsgLines(c) ==
    IF c = <<>> THEN <<>>
    ELSE IF Head(c).fn = "msg" THEN <<Head(c).text>> \o MsgLines(Tail(c))
    ELSE MsgLines(Tail(c))

Human == config.output_format = "HUMAN"
Buffer == Unwrap(response).buffer

\* C1: once call has built its Request, the state field is set and is archive
\* or all exactly when the "state" input is that word and unread for every
\* other input; the sort field is set and is oldest, title or site exactly
\* when the "sort" input is that word and newest for every other input; and
\* with an access token present building the Request never fails.
C1_OptionMapperTotal ==
    /\ pc # "call" /\ IsSome(config.access_token) => IsSome(request)
    /\ IsSome(request) =>
          LET r == Unwrap(request) IN
          /\ IsSome(r.state)
          /\ IsSome(r.sort)
          /\ Unwrap(r.state) =
                 (CASE args.state = <<97, 114, 99, 104, 105, 118, 101>> -> "archive"
                    [] args.state = <<97, 108, 108>> -> "all"
                    [] OTHER -> "unread")
          /\ Unwrap(r.sort) =
                 (CASE args.sort = <<111, 108, 100, 101, 115, 116>> -> "oldest"
                    [] args.sort = <<116, 105, 116, 108, 101>> -> "title"
                    [] args.sort = <<115, 105, 116, 101>> -> "site"
                    [] OTHER -> "newest")

\* C1 witness: a Request built from a "state" and a "sort" the matches do not name.
C1_Witness ==
    /\ IsSome(request)
    /\ args.state = S_newest
    /\ args.sort = S_all

\* The keys of a parsed object.
KeysOf(doc) == {doc.v[i][1] : i \in 1..Len(doc.v)}

\* The node under key k of a parsed object.
ValueOf(doc, k) == doc.v[CHOOSE i \in 1..Len(doc.v) : doc.v[i][1] = k][2]

\* What C2 asks of a serialized request, read back with the JSON grammar.
OmitIfAbsent(p) ==
    /\ p.ok
    /\ p.val.t = "obj"
    /\ (K_tag \in KeysOf(p.val)) <=> IsSome(args.tag)
    /\ (K_search \in KeysOf(p.val)) <=> IsSome(args.search)
    /\ IsSome(args.tag) => ValueOf(p.val, K_tag) = [t |-> "str", v |-> Unwrap(args.tag)]
    /\ IsSome(args.search) =>
           ValueOf(p.val, K_search) = [t |-> "str", v |-> Unwrap(args.search)]
    /\ {K_consumer_key, K_access_token, K_detailType} \subseteq KeysOf(p.val)
    /\ ValueOf(p.val, K_consumer_key) = [t |-> "str", v |-> config.consumer_key]
    /\ ValueOf(p.val, K_access_token) = [t |-> "str", v |-> Unwrap(config.access_token)]

Payloads ==
    (IF IsSome(request_json) THEN {Unwrap(request_json)} ELSE {})
    \cup {wire[i] : i \in 1..Len(wire)}

\* C2: every payload get serializes is a JSON object that holds the key tag
\* exactly when a tag was supplied and the key search exactly when a search
\* text was supplied, each with the supplied text (never null), and always
\* holds consumer_key, access_token and detailType.
C2_OmitIfAbsent == \A parsedPayload \in {ParseJson(p) : p \in Payloads} : OmitIfAbsent(parsedPayload)

\* C2 witness: a payload went to curl with a tag supplied and no search text.
C2_Witness ==
    /\ Len(wire) = 1
    /\ IsSome(args.tag)
    /\ IsNone(args.search)

\* C3: with no access token in the configuration call never reaches curl and
\* writes nothing, neither to the console nor to the JSON writer, and it ends
\* in a failure.
C3_NoTokenNoTransport ==
    IsNone(config.access_token) =>
        /\ wire = <<>>
        /\ sink = <<>>
        /\ console = <<>>
        /\ response = None
        /\ pc = "done" => result.kind = "panic"

\* C3 witness: an invocation without access token has ended.
C3_Witness ==
    /\ IsNone(config.access_token)
    /\ pc = "done"

\* C4: in human mode, when the parsed response has a status other than 1,
\* the invocation ends in success having written the failure message and no
\* article line.
C4_FailureNoArticles ==
    pc = "done" /\ Human /\ IsSome(parsed) /\ Unwrap(parsed).status # 1 =>
        /\ result = Ok
        /\ MsgLines(console) = <<M_Failed>>

\* C5: in human mode, when the parsed response has status 1 and N articles,
\* the invocation ends in success having written "Received N articles." and
\* then N lines, one for each article of the list, each of the form
\* <item_id>: '<resolved_title>', <resolved_url>.
C5_SuccessListsEach ==
    pc = "done" /\ Human /\ IsSome(parsed) /\ Unwrap(parsed).status = 1 =>
        LET list  == Unwrap(parsed).list
            n     == Cardinality(DOMAIN list)
            lines == MsgLines(console)
        IN  /\ result = Ok
            /\ Len(lines) = n + 1
            /\ lines[1] = <<82, 101, 99, 101, 105, 118, 101, 100, 32>> \o Dec(n)
                          \o <<32, 97, 114, 116, 105, 99, 108, 101, 115, 46>>
            /\ \E p \in Perms(DOMAIN list) :
                   \A i \in 1..n :
                       lines[i + 1] = list[p[i]].item_id \o <<58, 32, 39>>
                                      \o list[p[i]].resolved_title \o <<39, 44, 32>>
                                      \o list[p[i]].resolved_url

\* C5 witness: a response with status 1 and two or more articles was rendered.
C5_Witness ==
    /\ pc = "done"
    /\ Human
    /\ IsSome(parsed)
    /\ Unwrap(parsed).status = 1
    /\ Cardinality(DOMAIN Unwrap(parsed).list) >= 2
    /\ result = Ok

\* C6 as stated: in JSON mode the JSON writer is handed exactly the bytes
\* curl returned, whatever they are, and the response is never rejected.
C6_AnyBytesPassThrough ==
    pc = "done" /\ ~Human /\ IsSome(response) =>
        /\ sink = <<Buffer>>
        /\ parsed = None
        /\ result.kind = "Err" => result.chain = <<"PocketListFailed", "output::Error">>

\* C6 amended: in JSON mode, when the bytes curl returned are UTF-8 text,
\* JSON or not, the JSON writer is handed exactly those bytes, nothing is
\* parsed, and the only error is the writer's own; when they are no UTF-8
\* text the invocation ends with the error "Data copying failed." and the
\* writer is handed nothing.
C6_Utf8PassThrough ==
    pc = "done" /\ ~Human /\ IsSome(response) =>
        /\ parsed = None
        /\ Buffer \in Utf8Bodies =>
               /\ sink = <<Buffer>>
               /\ result.kind = "Err" =>
                      result.chain = <<"PocketListFailed", "output::Error">>
        /\ Buffer \in NonUtf8Bodies =>
               /\ sink = <<>>
               /\ result = Err(<<"PocketListFailed", "Data copying failed.", "Utf8Error">>)

\* C6 witness: a text that is no JSON document went to the JSON writer as it is.
C6_Witness ==
    /\ pc = "done"
    /\ ~Human
    /\ IsSome(response)
    /\ Buffer \in MalformedBodies
    /\ sink = <<Buffer>>
    /\ result = Ok

\* C7: every error call returns has PocketListFailed as its outermost error.
C7_AllErrorsWrapped ==
    result.kind = "Err" => Head(result.chain) = "PocketListFailed"

\* C8: an invocation calls curl at most once; whatever is written with msg
\* or handed to the JSON writer is written after that one call has returned
\* a response; and an invocation whose curl call or whose decoding of the
\* buffer failed has made exactly one curl call, ends with an error and has
\* rendered nothing.
C8_SingleAttempt ==
    /\ Len(wire) <= 1
    /\ MsgLines(console) # <<>> \/ sink # <<>> => Len(wire) = 1 /\ IsSome(response)
    /\ pc = "done" /\ Len(wire) = 1 /\ json = None =>
           /\ result.kind = "Err"
           /\ result.chain[2] \in {"Curl failed", "Data copying failed."}
           /\ MsgLines(console) = <<>>
           /\ sink = <<>>
    /\ result.kind = "Err" /\ "Curl failed" \in {result.chain[i] : i \in 1..Len(result.chain)} =>
           /\ pc = "done"
           /\ Len(wire) = 1
           /\ response = None

\* C8 witness: an invocation whose curl call failed has ended.
C8_Witness ==
    /\ pc = "done"
    /\ result = Err(<<"PocketListFailed", "Curl failed", "curl::Error">>)
    /\ Len(wire) = 1

\* C9: when call is run again with the same arguments and configuration and
\* the remote answers with the same body and another status code (the hasher
\* and the JSON writer behaving as before), the second invocation writes the
\* same lines, hands the JSON writer the same text and ends with the same
\* result as the first; and a well-formed body is rendered under any status
\* code.
C9_StatusCodeIgnored ==
    /\ pc = "done" /\ IsSome(prev) =>
           /\ Unwrap(response).code # Unwrap(prev).code
           /\ Buffer = Unwrap(prev).buffer
           /\ console = Unwrap(prev).console
           /\ sink = Unwrap(prev).sink
           /\ result = Unwrap(prev).result
    /\ pc = "done" /\ IsSome(response) /\ Human /\ Buffer \in WellFormedBodies =>
           /\ result = Ok
           /\ MsgLines(console) # <<>>

\* C9 witness: a body rendered under status 200 was rendered again under 500.
C9_Witness ==
    /\ pc = "done"
    /\ IsSome(prev)
    /\ Unwrap(prev).code = 200
    /\ Unwrap(response).code = 500
    /\ Human
    /\ Len(MsgLines(console)) >= 2

\* C10: in human mode, a body that is no JSON document, or that lacks a
\* field of ListResult or Article, repeats one, or holds a value of another
\* type in one, ends the invocation with an error and nothing is written with
\* msg; a body with fields the structs do not name is parsed and rendered.
C10_ParseFailureRendersNothing ==
    /\ pc = "done" /\ Human /\ IsSome(json)
       /\ Buffer \in MalformedBodies \cup IllTypedBodies =>
           /\ result.kind = "Err"
           /\ parsed = None
           /\ MsgLines(console) = <<>>
    /\ pc = "done" /\ Human /\ IsSome(json) /\ Buffer \in ExtraFieldBodies =>
           /\ result = Ok
           /\ IsSome(parsed)
           /\ MsgLines(console) # <<>>
    /\ Human /\ result.kind = "Err" => MsgLines(console) = <<>>

\* C10 witness: in human mode a body with a field of another type ended the
\* invocation with the parse error.
C10_Witness ==
    /\ pc = "done"
    /\ Human
    /\ IsSome(json)
    /\ Buffer \in IllTypedBodies
    /\ result.kind = "Err"

====
